---- MODULE Spec2Model ----
(***************************************************************************)
(* Load selection of elijahw00/load_optimizer.                             *)
(*                                                                         *)
(* optimize_jobs (src/load_optimizer/optimizer.py) computes a profit per   *)
(* job, optionally drops the jobs below a profit floor, builds a 0/1       *)
(* program over one variable per job id, hands it to PuLP/CBC and reads    *)
(* the chosen jobs and their totals back from the variables.               *)
(* load_jobs_from_csv (src/optimize_from_csv.py) turns CSV rows into Job   *)
(* objects before the call.                                                *)
(*                                                                         *)
(* Money, miles, hours and pallets are integers here (the code's floats    *)
(* without rounding).  An optional argument (None or a number in the       *)
(* code) is a set with at most one element: {} is None.                    *)
(***************************************************************************)
EXTENDS Integers, Sequences, FiniteSets, TLC

VARIABLES
    rows,                \* the rows of the CSV file (optimize_from_csv.py)
    input,               \* the jobs argument as passed to optimize_jobs
    cfg,                 \* ProblemConfig
    max_deadhead,        \* optional argument
    max_total_miles,     \* optional argument
    min_profit_per_job,  \* optional argument
    pc,                  \* position in the program
    jobs,                \* local `jobs` (the loader's list, then optimize_jobs's)
    profits,             \* local dict profits: job id -> profit
    x,                   \* value of each LpVariable of the problem after solve
    status,              \* pulp.LpStatus[prob.status]
    result,              \* the returned dictionary (valid when pc = "done")
    raised,              \* the exception that ended the run, "" when none
    prev                 \* results of the earlier runs of this session

vars == <<rows, input, cfg, max_deadhead, max_total_miles, min_profit_per_job,
          pc, jobs, profits, x, status, result, raised, prev>>

----------------------------------------------------------------------------
(* Bounds of the model and the values the inputs are drawn from.           *)

MaxJobs == 2

RevenueVals == {3, 6}
LoadedVals == {1}
DeadheadVals == {0, 1}
HoursVals == {1, 2}
PalletsVals == {1}

MaxHoursVals == {-1, 3}
MaxPalletsVals == {-1, 1, 2}
MaxDeadheadVals == {{}, {0}}
MaxTotalMilesVals == {{}, {2}}
MinProfitVals == {{}, {2}}
FuelCostVals == {1}
DriverCostVals == {2}

----------------------------------------------------------------------------
(* models.py                                                               *)

Job(id, revenue, loaded_miles, deadhead_miles, hours, pallets) ==
    [id |-> id, revenue |-> revenue, loaded_miles |-> loaded_miles,
     deadhead_miles |-> deadhead_miles, hours |-> hours, pallets |-> pallets]

ProblemConfig(max_hours, max_pallets, fuel_cost_per_mile, driver_cost_per_hour) ==
    [max_hours |-> max_hours, max_pallets |-> max_pallets,
     fuel_cost_per_mile |-> fuel_cost_per_mile,
     driver_cost_per_hour |-> driver_cost_per_hour]

----------------------------------------------------------------------------
(* Helpers over sequences of jobs.                                         *)

Indices(js) == 1..Len(js)

IdsOf(js) == {js[k].id : k \in Indices(js)}

UniqueIds(js) == \A i, k \in Indices(js) : js[i].id = js[k].id => i = k

RECURSIVE SumOver(_, _)
\* sum(f[k] for k in S), f a function on a finite set of indices
SumOver(f, S) ==
    IF S = {} THEN 0
    ELSE LET k == CHOOSE k \in S : TRUE
         IN  f[k] + SumOver(f, S \ {k})

\* The subsequence of js at the indices in S, in the order of js.
RECURSIVE Pick(_, _, _)
Pick(js, S, k) ==
    IF k > Len(js) THEN <<>>
    ELSE IF k \in S THEN <<js[k]>> \o Pick(js, S, k + 1)
    ELSE Pick(js, S, k + 1)

----------------------------------------------------------------------------
(* optimizer.py: compute_job_profit                                        *)

\* compute_job_profit with the deadhead miles left out of the fuel cost.
compute_job_profit_loaded_only(job, c) ==
    LET total_miles == job.loaded_miles
        fuel_cost == total_miles * c.fuel_cost_per_mile
        labor_cost == job.hours * c.driver_cost_per_hour
        total_cost == fuel_cost + labor_cost
    IN  job.revenue - total_cost

compute_job_profit(job, c) ==
    LET total_miles == job.loaded_miles + job.deadhead_miles
        fuel_cost == total_miles * c.fuel_cost_per_mile
        labor_cost == job.hours * c.driver_cost_per_hour
        total_cost == fuel_cost + labor_cost
    IN  job.revenue - total_cost

\* profits = {}; for job in jobs: profits[job.id] = compute_job_profit(job, cfg)
\* A later job with the same id overwrites the entry of an earlier one.
ProfitDict(js, c) ==
    [i \in IdsOf(js) |->
        LET last == CHOOSE k \in Indices(js) :
                        /\ js[k].id = i
                        /\ \A m \in Indices(js) : js[m].id = i => m <= k
        IN  compute_job_profit(js[last], c)]

\* The filter with > where the code has >=.
KeepsJobStrict(job, p, floor) == p[job.id] > floor

\* if profits[job.id] >= min_profit_per_job: filtered_jobs.append(job)
KeepsJob(job, p, floor) == p[job.id] >= floor

FilterJobs(js, p, floor) ==
    Pick(js, {k \in Indices(js) : KeepsJob(js[k], p, floor)}, 1)

----------------------------------------------------------------------------
(* optimizer.py: the 0/1 program handed to PuLP.                           *)
(* x[job.id] is one LpVariable per id; a linear expression                 *)
(* sum(w(job) * x[job.id] for job in jobs), with w the per-job weights in  *)
(* the order of jobs, is the function id -> summed coefficient, and its    *)
(* keys are the variables with a non-zero term (PuLP drops a term whose    *)
(* coefficient is 0).                                                      *)

LinExpr(js, w) ==
    [i \in IdsOf(js) |->
        SumOver([k \in Indices(js) |-> IF js[k].id = i THEN w[k] ELSE 0],
                Indices(js))]

Keys(js, w) == {js[k].id : k \in {m \in Indices(js) : w[m] # 0}}

\* The weight of each job of a list in a sum of the code.
HoursOf(js) == [k \in Indices(js) |-> js[k].hours]
PalletsOf(js) == [k \in Indices(js) |-> js[k].pallets]
DeadheadOf(js) == [k \in Indices(js) |-> js[k].deadhead_miles]
TotalMilesOf(js) ==
    [k \in Indices(js) |-> js[k].loaded_miles + js[k].deadhead_miles]
ProfitOf(js, p) == [k \in Indices(js) |-> p[js[k].id]]
RevenueOf(js) == [k \in Indices(js) |-> js[k].revenue]

\* The constraint with < where the code has <= (over integers: bound - 1).
ConstraintStrict(js, w, bound) ==
    [coef |-> LinExpr(js, w), keys |-> Keys(js, w), bound |-> bound - 1]

\* prob += sum(w(job) * x[job.id] for job in jobs) <= bound
Constraint(js, w, bound) ==
    [coef |-> LinExpr(js, w), keys |-> Keys(js, w), bound |-> bound]

\* The objective with the revenue where the code has the profit.
ObjectiveByRevenue(js, p) ==
    [coef |-> LinExpr(js, RevenueOf(js)), keys |-> Keys(js, RevenueOf(js))]

\* prob += sum(profits[job.id] * x[job.id] for job in jobs)
Objective(js, p) ==
    [coef |-> LinExpr(js, ProfitOf(js, p)), keys |-> Keys(js, ProfitOf(js, p))]

\* The hours constraint with the pallets as coefficients.
HoursConstraintOverPallets(js, c) ==
    Constraint(js, PalletsOf(js), c.max_hours)

\* The constraints the code adds: hours and pallets always, deadhead and total
\* miles when configured.
HoursConstraint(js, c) == Constraint(js, HoursOf(js), c.max_hours)
PalletsConstraint(js, c) == Constraint(js, PalletsOf(js), c.max_pallets)
DeadheadConstraints(js, md) == {Constraint(js, DeadheadOf(js), b) : b \in md}
TotalMilesConstraints(js, mt) ==
    {Constraint(js, TotalMilesOf(js), b) : b \in mt}

Constraints(js, c, md, mt) ==
    {HoursConstraint(js, c), PalletsConstraint(js, c)}
        \cup DeadheadConstraints(js, md) \cup TotalMilesConstraints(js, mt)

\* With no job left, sum(...) is the int 0 and `0 <= bound` is a Python bool:
\* `prob += True` adds nothing, `prob += False` is no constraint at all.
BoolConstraints(js) == js = <<>>

FalseConstraint(js, c, md, mt) ==
    /\ BoolConstraints(js)
    /\ \E con \in Constraints(js, c, md, mt) : ~(0 <= con.bound)

Problem(js, p, c, md, mt) ==
    LET obj == Objective(js, p)
        cons == IF BoolConstraints(js) THEN {} ELSE Constraints(js, c, md, mt)
    IN  [obj |-> obj.coef,
         cons |-> cons,
         vars |-> obj.keys \cup UNION {con.keys : con \in cons}]

\* The value of a linear expression under an assignment of the variables.
Eval(coef, a) ==
    SumOver([i \in DOMAIN coef |-> IF i \in DOMAIN a THEN coef[i] * a[i] ELSE 0],
            DOMAIN coef)

Satisfies(a, P) == \A con \in P.cons : Eval(con.coef, a) <= con.bound

Assignments(P) == [P.vars -> {0, 1}]

FeasibleSolutions(P) == {a \in Assignments(P) : Satisfies(a, P)}

\* What an exact solver may return: any feasible assignment no other
\* feasible assignment beats.
OptimalSolutions(P) ==
    LET F == FeasibleSolutions(P)
    IN  {a \in F : \A b \in F : Eval(P.obj, b) <= Eval(P.obj, a)}

\* pulp.value(x[job.id]) is not None and pulp.value(x[job.id]) > 0.5
\* (a variable that is in no expression of the problem keeps the value None)
IsChosen(job, xs) == job.id \in DOMAIN xs /\ 2 * xs[job.id] > 1

ChosenJobs(js, xs) == Pick(js, {k \in Indices(js) : IsChosen(js[k], xs)}, 1)

\* total += w(job) for every job of the list
SumField(js, w) == SumOver(w, Indices(js))

EmptyResult ==
    [status |-> "", total_profit |-> 0, total_hours |-> 0, total_pallets |-> 0,
     chosen_jobs |-> <<>>, all_profits |-> <<>>]

\* The result with total_profit summed over the revenue of the chosen jobs.
MakeResultRevenue(js, p, xs, st) ==
    LET chosen == ChosenJobs(js, xs)
    IN  [status |-> st,
         total_profit |-> SumField(chosen, RevenueOf(chosen)),
         total_hours |-> SumField(chosen, HoursOf(chosen)),
         total_pallets |-> SumField(chosen, PalletsOf(chosen)),
         chosen_jobs |-> chosen,
         all_profits |-> p]

\* The result with total_hours accumulated outside the `if`: over every job
\* of the loop, chosen or not.
MakeResultAllHours(js, p, xs, st) ==
    LET chosen == ChosenJobs(js, xs)
    IN  [status |-> st,
         total_profit |-> SumField(chosen, ProfitOf(chosen, p)),
         total_hours |-> SumField(js, HoursOf(js)),
         total_pallets |-> SumField(chosen, PalletsOf(chosen)),
         chosen_jobs |-> chosen,
         all_profits |-> p]

\* lines 83-104
MakeResult(js, p, xs, st) ==
    LET chosen == ChosenJobs(js, xs)
    IN  [status |-> st,
         total_profit |-> SumField(chosen, ProfitOf(chosen, p)),
         total_hours |-> SumField(chosen, HoursOf(chosen)),
         total_pallets |-> SumField(chosen, PalletsOf(chosen)),
         chosen_jobs |-> chosen,
         all_profits |-> p]

----------------------------------------------------------------------------
(* The inputs: validated candidates (unique ids, non-negative fields) and  *)
(* any configuration, negative budgets included.                           *)

Fields ==
    [revenue : RevenueVals, loaded_miles : LoadedVals,
     deadhead_miles : DeadheadVals, hours : HoursVals, pallets : PalletsVals]

JobListsOfLen(n) ==
    {[k \in 1..n |-> Job(k, f[k].revenue, f[k].loaded_miles,
                          f[k].deadhead_miles, f[k].hours, f[k].pallets)] :
        f \in [1..n -> Fields]}

JobLists == UNION {JobListsOfLen(n) : n \in 0..MaxJobs}

Configs ==
    {ProblemConfig(h, p, f, d) :
        h \in MaxHoursVals, p \in MaxPalletsVals,
        f \in FuelCostVals, d \in DriverCostVals}

Init ==
    /\ rows = <<>>
    /\ input \in JobLists
    /\ cfg \in Configs
    /\ max_deadhead \in MaxDeadheadVals
    /\ max_total_miles \in MaxTotalMilesVals
    /\ min_profit_per_job \in MinProfitVals
    /\ pc = "start"
    /\ jobs = input
    /\ profits = <<>>
    /\ x = <<>>
    /\ status = ""
    /\ result = EmptyResult
    /\ raised = ""
    /\ prev = <<>>

----------------------------------------------------------------------------
(* optimize_jobs, step by step.                                            *)

\* lines 39-42
ComputeProfits ==
    /\ pc = "start"
    /\ profits' = ProfitDict(jobs, cfg)
    /\ pc' = "filter"
    /\ UNCHANGED <<rows, input, cfg, max_deadhead, max_total_miles,
                   min_profit_per_job, jobs, x, status, result, raised, prev>>

\* lines 44-50
DropLowProfitJobs ==
    /\ pc = "filter"
    /\ jobs' = IF min_profit_per_job = {} THEN jobs
               ELSE LET floor == CHOOSE b \in min_profit_per_job : TRUE
                    IN  FilterJobs(jobs, profits, floor)
    /\ pc' = "solve"
    /\ UNCHANGED <<rows, input, cfg, max_deadhead, max_total_miles,
                   min_profit_per_job, profits, x, status, result, raised, prev>>

\* lines 52-81, `prob += False` raising (PuLP 2.x)
BuildRaises ==
    /\ pc = "solve"
    /\ FalseConstraint(jobs, cfg, max_deadhead, max_total_miles)
    /\ raised' = "TypeError"
    /\ pc' = "raised"
    /\ UNCHANGED <<rows, input, cfg, max_deadhead, max_total_miles,
                   min_profit_per_job, jobs, profits, x, status, result, prev>>

\* lines 52-81.  An infeasible problem leaves the variables at whatever CBC
\* wrote last; PuLP documents no value for them.  (`prob += False` that does
\* not raise, in PuLP 1.x, adds no constraint.)
SolveProblem ==
    /\ pc = "solve"
    /\ LET P == Problem(jobs, profits, cfg, max_deadhead, max_total_miles)
       IN  IF FeasibleSolutions(P) # {}
           THEN /\ status' = "Optimal"
                /\ x' \in OptimalSolutions(P)
           ELSE /\ status' = "Infeasible"
                /\ x' \in Assignments(P)
    /\ pc' = "extract"
    /\ UNCHANGED <<rows, input, cfg, max_deadhead, max_total_miles,
                   min_profit_per_job, jobs, profits, result, raised, prev>>

\* lines 83-104
ExtractSolution ==
    /\ pc = "extract"
    /\ result' = MakeResult(jobs, profits, x, status)
    /\ pc' = "done"
    /\ UNCHANGED <<rows, input, cfg, max_deadhead, max_total_miles,
                   min_profit_per_job, jobs, profits, x, status, raised, prev>>

Next ==
    \/ ComputeProfits
    \/ DropLowProfitJobs
    \/ BuildRaises
    \/ SolveProblem
    \/ ExtractSolution

Spec == Init /\ [][Next]_vars

----------------------------------------------------------------------------
(* app.py: every press of "Optimize" calls optimize_jobs again, on the     *)
(* same upload, with the sidebar's settings of that moment.                *)

CallAgain(floor) ==
    /\ pc = "done"
    /\ prev = <<>>
    /\ prev' = <<[min_profit_per_job |-> min_profit_per_job, result |-> result]>>
    /\ min_profit_per_job' = floor
    /\ pc' = "start"
    /\ jobs' = input
    /\ profits' = <<>>
    /\ x' = <<>>
    /\ status' = ""
    /\ result' = EmptyResult
    /\ UNCHANGED <<rows, input, cfg, max_deadhead, max_total_miles, raised>>

\* app.py lines 134-141, nothing changed in the sidebar
OptimizeAgain == CallAgain(min_profit_per_job)

\* app.py lines 61-64 and 134-141, "Require minimum profit per job?" unticked
OptimizeWithoutFloor ==
    /\ min_profit_per_job # {}
    /\ CallAgain({})

NextRepeat == Next \/ OptimizeAgain

SpecRepeat == Init /\ [][NextRepeat]_vars

NextFloor == Next \/ OptimizeWithoutFloor

SpecFloor == Init /\ [][NextFloor]_vars

----------------------------------------------------------------------------
(* optimize_from_csv.py: load_jobs_from_csv, then main's call of           *)
(* optimize_jobs.  A CSV cell is a number, a text that is no number, or    *)
(* absent (a short row: csv.DictReader fills the cell with None).          *)

Num(v) == [kind |-> "num", val |-> v]
Text == [kind |-> "text", val |-> 0]
NoValue == [kind |-> "none", val |-> 0]

CsvIds == {1, 2}
RawRevenue == {Num(6), Text}
RawLoaded == {Num(1)}
RawDeadhead == {Num(0), NoValue}
RawHours == {Num(1), Num(-1)}
RawPallets == {Num(1)}

RawRows ==
    [id : CsvIds, revenue : RawRevenue, loaded_miles : RawLoaded,
     deadhead_miles : RawDeadhead, hours : RawHours, pallets : RawPallets]

RowLists == UNION {[1..n -> RawRows] : n \in 0..MaxJobs}

\* The cells float() is applied to, in the order Job(...)'s arguments are
\* evaluated.
FloatCells(row) ==
    <<row.revenue, row.loaded_miles, row.deadhead_miles, row.hours, row.pallets>>

\* float(cell) succeeds on a number of either sign
FloatOk(cell) == cell.kind = "num"

\* float("abc") raises ValueError, float(None) raises TypeError
FloatError(cell) == IF cell.kind = "text" THEN "ValueError" ELSE "TypeError"

RowOk(row) == \A k \in 1..5 : FloatOk(FloatCells(row)[k])

FirstBadCell(row) ==
    LET cells == FloatCells(row)
        k == CHOOSE k \in 1..5 :
                 /\ ~FloatOk(cells[k])
                 /\ \A m \in 1..(k - 1) : FloatOk(cells[m])
    IN  cells[k]

JobOfRow(row) ==
    Job(row.id, row.revenue.val, row.loaded_miles.val, row.deadhead_miles.val,
        row.hours.val, row.pallets.val)

InitCsv ==
    /\ rows \in RowLists
    /\ input = <<>>
    /\ cfg \in Configs
    /\ max_deadhead \in MaxDeadheadVals
    /\ max_total_miles \in MaxTotalMilesVals
    /\ min_profit_per_job \in MinProfitVals
    /\ pc = "load"
    /\ jobs = <<>>
    /\ profits = <<>>
    /\ x = <<>>
    /\ status = ""
    /\ result = EmptyResult
    /\ raised = ""
    /\ prev = <<>>

\* optimize_from_csv.py lines 17-30, a row whose cells all convert
ReadRow ==
    /\ pc = "load"
    /\ Len(jobs) < Len(rows)
    /\ RowOk(rows[Len(jobs) + 1])
    /\ jobs' = Append(jobs, JobOfRow(rows[Len(jobs) + 1]))
    /\ UNCHANGED <<rows, input, cfg, max_deadhead, max_total_miles,
                   min_profit_per_job, pc, profits, x, status, result, raised,
                   prev>>

\* optimize_from_csv.py lines 18-24, float() raising out of the loader
ReadRowFails ==
    /\ pc = "load"
    /\ Len(jobs) < Len(rows)
    /\ ~RowOk(rows[Len(jobs) + 1])
    /\ raised' = FloatError(FirstBadCell(rows[Len(jobs) + 1]))
    /\ pc' = "raised"
    /\ UNCHANGED <<rows, input, cfg, max_deadhead, max_total_miles,
                   min_profit_per_job, jobs, profits, x, status, result, prev>>

\* optimize_from_csv.py lines 31 and 221-238: the list goes to optimize_jobs
CallOptimize ==
    /\ pc = "load"
    /\ Len(jobs) = Len(rows)
    /\ input' = jobs
    /\ pc' = "start"
    /\ UNCHANGED <<rows, cfg, max_deadhead, max_total_miles,
                   min_profit_per_job, jobs, profits, x, status, result, raised,
                   prev>>

NextCsv == ReadRow \/ ReadRowFails \/ CallOptimize \/ Next

SpecCsv == InitCsv /\ [][NextCsv]_vars

----------------------------------------------------------------------------
(* demo.py: main builds five Job objects and a ProblemConfig, calls        *)
(* optimize_jobs and prints the result.  Money is in tenths and hours are  *)
(* in half hours here, so the fixture's 0.7 per mile is 7, its 25 per hour *)
(* is 125 per half hour, and 3.0 / 4.5 / 11.0 hours are 6 / 9 / 22.        *)
(* A Job(...) call is the record of its keyword arguments; deadhead_miles  *)
(* is {} when the call does not pass it (demo.py lines 8-12 do not) and    *)
(* {0} when it passes the fixture's value.                                 *)

DemoArgs ==
    <<[revenue |-> 7000, loaded_miles |-> 120, hours |-> 6, pallets |-> 2],
      [revenue |-> 5000, loaded_miles |-> 60, hours |-> 4, pallets |-> 1],
      [revenue |-> 9000, loaded_miles |-> 180, hours |-> 9, pallets |-> 3],
      [revenue |-> 4000, loaded_miles |-> 40, hours |-> 3, pallets |-> 1],
      [revenue |-> 6500, loaded_miles |-> 100, hours |-> 6, pallets |-> 2]>>

\* The calls of lines 8-12 as written, or all of them with deadhead_miles=0
\* added.
DemoCalls ==
    {[k \in Indices(DemoArgs) |->
         [id |-> k, revenue |-> DemoArgs[k].revenue,
          loaded_miles |-> DemoArgs[k].loaded_miles,
          deadhead_miles |-> d,
          hours |-> DemoArgs[k].hours, pallets |-> DemoArgs[k].pallets]] :
        d \in {{}, {0}}}

DemoConfig == ProblemConfig(22, 6, 7, 125)

\* Job.__init__ has no default for deadhead_miles (models.py line 5): a call
\* without it raises TypeError before the body runs.
JobInitOk(args) == args.deadhead_miles # {}

JobInit(args) ==
    Job(args.id, args.revenue, args.loaded_miles,
        CHOOSE d \in args.deadhead_miles : TRUE, args.hours, args.pallets)

InitDemo ==
    /\ rows \in DemoCalls
    /\ input = <<>>
    /\ cfg = DemoConfig
    /\ max_deadhead = {}
    /\ max_total_miles = {}
    /\ min_profit_per_job = {}
    /\ pc = "demo"
    /\ jobs = <<>>
    /\ profits = <<>>
    /\ x = <<>>
    /\ status = ""
    /\ result = EmptyResult
    /\ raised = ""
    /\ prev = <<>>

\* demo.py lines 7-13, one Job(...) call of the list literal
DemoBuildJob ==
    /\ pc = "demo"
    /\ Len(jobs) < Len(rows)
    /\ IF JobInitOk(rows[Len(jobs) + 1])
       THEN /\ jobs' = Append(jobs, JobInit(rows[Len(jobs) + 1]))
            /\ UNCHANGED <<pc, raised>>
       ELSE /\ raised' = "TypeError"
            /\ pc' = "raised"
            /\ UNCHANGED jobs
    /\ UNCHANGED <<rows, input, cfg, max_deadhead, max_total_miles,
                   min_profit_per_job, profits, x, status, result, prev>>

\* demo.py lines 15-22
DemoCallOptimize ==
    /\ pc = "demo"
    /\ Len(jobs) = Len(rows)
    /\ input' = jobs
    /\ pc' = "start"
    /\ UNCHANGED <<rows, cfg, max_deadhead, max_total_miles,
                   min_profit_per_job, jobs, profits, x, status, result, raised,
                   prev>>

\* demo.py lines 24-33: the totals are printed, then j['id'] subscripts a
\* Job object, which raises TypeError for the first chosen job.
DemoPrint ==
    /\ pc = "done"
    /\ rows # <<>>
    /\ IF result.chosen_jobs = <<>>
       THEN /\ pc' = "exit"
            /\ UNCHANGED raised
       ELSE /\ raised' = "TypeError"
            /\ pc' = "raised"
    /\ UNCHANGED <<rows, input, cfg, max_deadhead, max_total_miles,
                   min_profit_per_job, jobs, profits, x, status, result, prev>>

\* The program with both callers of optimize_jobs: demo.py's main and a
\* direct call.
InitAny == Init \/ InitDemo

NextDemo == DemoBuildJob \/ DemoCallOptimize \/ DemoPrint \/ Next

SpecDemo == InitAny /\ [][NextDemo]_vars

----------------------------------------------------------------------------
(* Reference definitions for the properties: the profit formula and the    *)
(* exhaustive enumeration of the subsets of the candidates, written over   *)
(* positions of the input list and independent of the id-keyed program.    *)

SpecProfit(c) ==
    c.revenue - (c.loaded_miles + c.deadhead_miles) * cfg.fuel_cost_per_mile
              - c.hours * cfg.driver_cost_per_hour

SpecProfits(js) == [k \in Indices(js) |-> SpecProfit(js[k])]

\* The positions of the input the profit floor leaves eligible.
Eligible ==
    {k \in Indices(input) : \A b \in min_profit_per_job : SpecProfit(input[k]) >= b}

Removed == Indices(input) \ Eligible

\* The sum of the weights w of the input candidates at the positions in S.
SubsetSum(S, w) == SumOver(w, S)

WithinBounds(S) ==
    /\ SubsetSum(S, HoursOf(input)) <= cfg.max_hours
    /\ SubsetSum(S, PalletsOf(input)) <= cfg.max_pallets
    /\ \A b \in max_deadhead : SubsetSum(S, DeadheadOf(input)) <= b
    /\ \A b \in max_total_miles : SubsetSum(S, TotalMilesOf(input)) <= b

FeasibleSubsets == {S \in SUBSET Eligible : WithinBounds(S)}

BestProfit ==
    LET best == CHOOSE S \in FeasibleSubsets :
                    \A T \in FeasibleSubsets :
                        SubsetSum(T, SpecProfits(input))
                            <= SubsetSum(S, SpecProfits(input))
    IN  SubsetSum(best, SpecProfits(input))

InSeq(e, sq) == \E k \in Indices(sq) : sq[k] = e

\* The sum of the weights w over the chosen jobs of the result.
ChosenSum(w) == SumOver(w, Indices(result.chosen_jobs))

NegativeBudget == cfg.max_hours < 0 \/ cfg.max_pallets < 0

\* The empty selection (all sums 0) breaks a bound that is in force.
EmptyViolates ==
    \/ 0 > cfg.max_hours
    \/ 0 > cfg.max_pallets
    \/ \E b \in max_deadhead : 0 > b
    \/ \E b \in max_total_miles : 0 > b

----------------------------------------------------------------------------
(* C1: for candidates with unique ids, whenever some subset of the         *)
(* (filtered) candidates satisfies every constraint in force, the returned *)
(* total_profit is the maximum of the summed profits over all such         *)
(* subsets, found by exhaustive enumeration.                               *)
OptimalityC1 ==
    (pc = "done" /\ UniqueIds(input) /\ FeasibleSubsets # {})
        => result.total_profit = BestProfit

\* A run where the bounds bite: a profitable eligible candidate is left out
\* and the total is the enumerated maximum.
WitnessC1 ==
    /\ pc = "done"
    /\ Len(input) = MaxJobs
    /\ result.status = "Optimal"
    /\ Len(result.chosen_jobs) >= 1
    /\ \E k \in Eligible :
           /\ SpecProfit(input[k]) > 0
           /\ SpecProfit(input[k]) < result.total_profit
           /\ ~InSeq(input[k], result.chosen_jobs)
    /\ result.total_profit = BestProfit
    /\ result.total_profit > 0

\* The sums over the chosen jobs are within the bounds in force.
ChosenWithinBounds ==
    /\ ChosenSum(HoursOf(result.chosen_jobs)) <= cfg.max_hours
    /\ ChosenSum(PalletsOf(result.chosen_jobs)) <= cfg.max_pallets
    /\ \A b \in max_deadhead :
           ChosenSum(DeadheadOf(result.chosen_jobs)) <= b
    /\ \A b \in max_total_miles :
           ChosenSum(TotalMilesOf(result.chosen_jobs)) <= b

(* C2 as claimed: in every returned result the chosen jobs satisfy every   *)
(* constraint in force: hours, pallets and, when configured, deadhead      *)
(* miles and total miles.                                                  *)
ConstraintsHoldC2 == pc = "done" => ChosenWithinBounds

(* C2 as amended: in every result returned for an input of which some      *)
(* selection satisfies the constraints in force, the chosen jobs satisfy   *)
(* every one of them.                                                      *)
FeasibleConstraintsHoldC2 ==
    (pc = "done" /\ FeasibleSubsets # {}) => ChosenWithinBounds

\* Both optional bounds are set, jobs are chosen, and a profitable eligible
\* candidate stays out because adding it would break a bound.
WitnessC2 ==
    /\ pc = "done"
    /\ FeasibleSubsets # {}
    /\ max_deadhead # {}
    /\ max_total_miles # {}
    /\ Len(result.chosen_jobs) >= 1
    /\ ChosenWithinBounds
    /\ \E k \in Eligible :
           /\ SpecProfit(input[k]) > 0
           /\ ~InSeq(input[k], result.chosen_jobs)
           /\ ~WithinBounds({k} \cup
                  {m \in Indices(input) : InSeq(input[m], result.chosen_jobs)})

(* C3: with a profit floor set, the candidates removed before the solve    *)
(* are exactly those whose profit is below the floor (a profit equal to    *)
(* the floor stays), and no removed candidate is among the chosen jobs.    *)
FloorFilterC3 ==
    (min_profit_per_job # {} /\ UniqueIds(input)) =>
        /\ pc \in {"solve", "extract", "done"} => jobs = Pick(input, Eligible, 1)
        /\ pc = "done" =>
               \A k \in Removed : ~InSeq(input[k], result.chosen_jobs)

\* A candidate at the floor is chosen while a profitable candidate below the
\* floor, which the bounds would admit next to it, is left out.
WitnessC3 ==
    /\ pc = "done"
    /\ result.status = "Optimal"
    /\ \E b \in min_profit_per_job :
           /\ \E k \in Eligible :
                  SpecProfit(input[k]) = b /\ InSeq(input[k], result.chosen_jobs)
           /\ \E k \in Removed :
                  /\ SpecProfit(input[k]) > 0
                  /\ SpecProfit(input[k]) < b
                  /\ WithinBounds({k} \cup
                         {m \in Indices(input) : InSeq(input[m], result.chosen_jobs)})

(* C4: every input candidate, removed by the floor or not, chosen or not,  *)
(* has an entry in all_profits equal to revenue - (loaded + deadhead miles)*)
(* * fuel cost per mile - hours * driver cost per hour; the same value is  *)
(* the candidate's coefficient in the objective and its share of           *)
(* total_profit.                                                           *)
AllProfitsC4 ==
    /\ (pc \in {"filter", "solve", "extract", "done"} /\ UniqueIds(input)) =>
           \A k \in Indices(input) :
               /\ input[k].id \in DOMAIN profits
               /\ profits[input[k].id] = SpecProfit(input[k])
    /\ (pc \in {"extract", "done"} /\ UniqueIds(input)) =>
           Objective(jobs, profits).coef = [i \in IdsOf(jobs) |->
               SpecProfit(jobs[CHOOSE k \in Indices(jobs) : jobs[k].id = i])]
    /\ (pc = "done" /\ UniqueIds(input)) =>
           /\ result.all_profits = profits
           /\ result.total_profit = ChosenSum(SpecProfits(result.chosen_jobs))

\* A result with a chosen candidate and a candidate the floor removed, which
\* is not among the jobs the solver saw and still has its entry.
WitnessC4 ==
    /\ pc = "done"
    /\ Len(result.chosen_jobs) >= 1
    /\ \E k \in Removed : ~InSeq(input[k], jobs) /\ SpecProfit(input[k]) # 0
    /\ \A k \in Indices(input) :
           result.all_profits[input[k].id] = SpecProfit(input[k])

(* C5: with a negative mandatory budget (max_hours < 0 or max_pallets < 0) *)
(* optimize_jobs does not raise, and what it returns is the empty          *)
(* selection with total_profit, total_hours and total_pallets all 0.       *)
NegativeBudgetC5 ==
    NegativeBudget =>
        /\ pc # "raised"
        /\ pc = "done" =>
               /\ result.chosen_jobs = <<>>
               /\ result.total_profit = 0
               /\ result.total_hours = 0
               /\ result.total_pallets = 0

(* C6: optimize_jobs returns a result and never raises, also for an empty  *)
(* or fully filtered candidate list; the status is Infeasible only when    *)
(* the empty selection violates a configured bound and Optimal otherwise.  *)
AlwaysReturnsC6 ==
    /\ pc # "raised"
    /\ pc = "done" =>
           /\ result.status = "Infeasible" => EmptyViolates
           /\ ~EmptyViolates => result.status = "Optimal"

BadCell(cell) == ~FloatOk(cell) \/ cell.val < 0

BadRow(row) == \E k \in 1..5 : BadCell(FloatCells(row)[k])

HasDuplicateIds == ~UniqueIds(rows)

(* C7: when two rows of a CSV file that is valid otherwise carry the same  *)
(* id, the run fails before any optimization is performed: optimize_jobs   *)
(* is never entered and no result is produced.                             *)
DuplicateIdsRejectedC7 ==
    (HasDuplicateIds /\ \A k \in Indices(rows) : ~BadRow(rows[k]))
        => pc \in {"load", "raised"}

HasBadRow == \E k \in Indices(rows) : BadRow(rows[k])

(* C8: a file with a row whose required numeric cell is missing, not a     *)
(* number or negative is rejected (the run ends with an exception, of      *)
(* whatever class): no job built from such a file reaches optimize_jobs.   *)
BadRecordRejectedC8 == HasBadRow => pc \in {"load", "raised"}

TwoRuns ==
    /\ pc = "done"
    /\ prev # <<>>
    /\ prev[1].min_profit_per_job = min_profit_per_job

BothOptimal ==
    /\ TwoRuns
    /\ prev[1].result.status = "Optimal"
    /\ result.status = "Optimal"

EmptySelection == [i \in IdsOf(jobs) |-> 0]

\* The empty selection satisfies every constraint the code builds for the
\* (filtered) candidates, and its objective value is 0.
EmptySelectionFeasible ==
    /\ \A con \in Constraints(jobs, cfg, max_deadhead, max_total_miles) :
           Eval(con.coef, EmptySelection) <= con.bound
    /\ Eval(Objective(jobs, profits).coef, EmptySelection) = 0

(* C11 as claimed: for any configuration, negative bounds included, the    *)
(* empty selection satisfies all of the constraints built in lines 63-78   *)
(* and has profit 0.                                                       *)
EmptyFeasibleC11 ==
    pc \in {"solve", "extract", "done", "raised"} => EmptySelectionFeasible

(* C11 as amended: for any configuration whose bounds in force are all     *)
(* >= 0, the empty selection satisfies all of the constraints built in     *)
(* lines 63-78 and has profit 0.                                           *)
EmptyFeasibleNonNegativeC11 ==
    (pc \in {"solve", "extract", "done", "raised"} /\ ~EmptyViolates)
        => EmptySelectionFeasible

\* All four constraints are in force over two candidates, one bound is
\* exactly 0, the empty selection is feasible and the run chose a job.
WitnessC11 ==
    /\ pc = "done"
    /\ ~EmptyViolates
    /\ max_deadhead = {0}
    /\ max_total_miles # {}
    /\ Len(jobs) = MaxJobs
    /\ EmptySelectionFeasible
    /\ result.status = "Optimal"
    /\ Len(result.chosen_jobs) >= 1

\* The positions of the (filtered) jobs whose variable the solver left at 1.
SelectedPositions == {k \in Indices(jobs) : jobs[k].id \in DOMAIN x /\ x[jobs[k].id] = 1}

(* C12: in every returned result total_profit, total_hours and             *)
(* total_pallets are the sums of profit, hours and pallets over exactly    *)
(* the jobs in chosen_jobs; chosen_jobs holds no job twice and is the      *)
(* subsequence, in input order, of the (filtered) jobs at exactly the      *)
(* positions the solver selected: the aggregation decides nothing itself.  *)
AggregationC12 ==
    pc = "done" =>
        /\ result.total_profit = ChosenSum(SpecProfits(result.chosen_jobs))
        /\ result.total_hours = ChosenSum(HoursOf(result.chosen_jobs))
        /\ result.total_pallets = ChosenSum(PalletsOf(result.chosen_jobs))
        /\ UniqueIds(result.chosen_jobs)
        /\ result.chosen_jobs = Pick(jobs, SelectedPositions, 1)
        /\ jobs = Pick(input, Eligible, 1)

\* A result with both candidates chosen, of different hours and profits,
\* in the order of the input.
WitnessC12 ==
    /\ pc = "done"
    /\ result.status = "Optimal"
    /\ Len(result.chosen_jobs) = 2
    /\ result.chosen_jobs = input
    /\ input[1].hours # input[2].hours
    /\ SpecProfit(input[1]) # SpecProfit(input[2])
    /\ result.total_hours = input[1].hours + input[2].hours
    /\ result.total_profit = SpecProfit(input[1]) + SpecProfit(input[2])

\* A run of demo.py's main.
DemoRun == rows \in DemoCalls

\* optimize_jobs returned for the fixture: every profit is positive and the
\* total is the enumerated maximum.
FixtureOptimal ==
    /\ result.status = "Optimal"
    /\ \A k \in Indices(input) : result.all_profits[input[k].id] > 0
    /\ \A k \in Indices(input) :
           result.all_profits[input[k].id] = SpecProfit(input[k])
    /\ result.total_profit = BestProfit

(* C13: the run of the five-candidate fixture (demo.py's main) completes:  *)
(* it raises nowhere, every individual profit is positive and the          *)
(* reported total_profit is the exhaustive-enumeration maximum.            *)
FixtureRunC13 ==
    DemoRun =>
        /\ pc # "raised"
        /\ pc \in {"done", "exit"} => FixtureOptimal

====
